---- MODULE Spec2Model ----
(***************************************************************************)
(* Thrifter deal-discovery pipeline: the background deal scanner           *)
(* (backend/services/deal_scanner.py), the persistence calls it makes      *)
(* (backend/services/inventory.py), the eBay aggregator                    *)
(* (backend/services/ebay_service.py, ebay_scraper.py, marketplace.py)     *)
(* and the pricing engine (backend/services/pricing.py).                   *)
(*                                                                         *)
(* asyncio runs one coroutine at a time, so every action below is the code *)
(* that runs between two awaits of one task, or one synchronous call.      *)
(***************************************************************************)
EXTENDS Integers, Sequences, FiniteSets, TLC

\* ------------------------------------------------------------------ bounds
\* Tasks (scan loops and scan-now cycles) ever created.
MaxTasks == 2
\* Seconds of the inter-cycle sleep (INTERVAL_MINUTES * 60 in the code).
IntervalTicks == 2
\* Scan cycles ever begun.
MaxCycles == 2
\* Watch queries ever created.
MaxWatch == 2
\* inventory items added by purchases
MaxItems == 2
\* scan-now cycles in the specification of the opportunity workflow
MaxScans == 1

\* Python's None for a nullable number.
NULL == -1

\* ------------------------------------------------------------- arithmetic
\* Money is held in cents (integers); intermediate quantities keep their exact
\* rational value as a numerator over a positive denominator.

\* round(n / d) to the nearest integer, ties to the even one (Python's round), d > 0.
RoundHE(n, d) ==
    LET q == n \div d
        r == n - q * d
    IN  IF 2 * r < d THEN q
        ELSE IF 2 * r > d THEN q + 1
        ELSE IF q % 2 = 0 THEN q ELSE q + 1

Max2(a, b) == IF a >= b THEN a ELSE b
\* min that lets its first argument through.
Min2Unbounded(a, b) == a
Min2(a, b) == IF a <= b THEN a ELSE b

RECURSIVE SumSeq(_)
SumSeq(s) == IF s = <<>> THEN 0 ELSE Head(s) + SumSeq(Tail(s))

RECURSIVE SumSq(_)
SumSq(s) == IF s = <<>> THEN 0 ELSE Head(s) * Head(s) + SumSq(Tail(s))

\* s with x inserted before the first greater element (s sorted).
RECURSIVE InsertSorted(_, _)
InsertSorted(x, s) ==
    IF s = <<>> THEN <<x>>
    ELSE IF x <= Head(s) THEN <<x>> \o s
    ELSE <<Head(s)>> \o InsertSorted(x, Tail(s))

\* sorted(s)
RECURSIVE sorted(_)
sorted(s) == IF s = <<>> THEN <<>> ELSE InsertSorted(Head(s), sorted(Tail(s)))

\* [i["price"] for i in listings if i.get("price") and i["price"] > 0]
RECURSIVE PositivePrices(_)
PositivePrices(listings) ==
    IF listings = <<>> THEN <<>>
    ELSE LET p == Head(listings).price
         IN  (IF p # NULL /\ p > 0 THEN <<p>> ELSE <<>>) \o PositivePrices(Tail(listings))

\* 2 * statistics.median(prices), prices non-empty: twice the middle element, or the
\* sum of the two middle elements.
Median2(prices) ==
    LET s == sorted(prices)
        n == Len(s)
    IN  IF n % 2 = 1 THEN 2 * s[(n + 1) \div 2]
        ELSE s[n \div 2] + s[n \div 2 + 1]

\* --------------------------------------------------------------- pricing.py
\* (now - sold_dt).days of the sold listings that carry a sold_date, kept when within
\* 0..180. Dates are day numbers; now is the clock reading of datetime.now().
RECURSIVE DayDiffs(_, _)
DayDiffs(sold_listings, now) ==
    IF sold_listings = <<>> THEN <<>>
    ELSE LET sd == Head(sold_listings).sold_date
         IN  (IF sd # NULL /\ now - sd >= 0 /\ now - sd <= 180 THEN <<now - sd>> ELSE <<>>)
             \o DayDiffs(Tail(sold_listings), now)

\* The liquidity tiers with exclusive lower bounds.
liquidity_tier_exclusive(str_pct, total_sold) ==
    IF str_pct # NULL
    THEN IF str_pct > 600 THEN "hot"
         ELSE IF str_pct > 350 THEN "steady"
         ELSE IF str_pct > 150 THEN "slow"
         ELSE "dead"
    ELSE IF total_sold > 10 THEN "steady"
    ELSE "unknown"
\* _calc_sell_through: the liquidity tier of a percent held in tenths
liquidity_tier(str_pct, total_sold) ==
    IF str_pct # NULL
    THEN IF str_pct >= 600 THEN "hot"
         ELSE IF str_pct >= 350 THEN "steady"
         ELSE IF str_pct >= 150 THEN "slow"
         ELSE "dead"
    ELSE IF total_sold > 10 THEN "steady"
    ELSE "unknown"

\* _calc_sell_through: sell_through_pct in tenths of a percent (NULL when
\* total_completed is 0), avg_days_to_sell in tenths of a day (NULL without a dated
\* sale) and the liquidity tier.
calc_sell_through(sold_listings, total_sold, total_completed, now) ==
    LET day_diffs == DayDiffs(sold_listings, now)
        str_pct == IF total_completed > 0
                   THEN RoundHE(1000 * total_sold, total_completed)
                   ELSE NULL
        liquidity == liquidity_tier(str_pct, total_sold)
    IN  [sell_through_pct |-> str_pct,
         avg_days_to_sell |-> IF day_diffs # <<>>
                              THEN RoundHE(10 * SumSeq(day_diffs), Len(day_diffs))
                              ELSE NULL,
         liquidity |-> liquidity]

\* cv > 0.5 for statistics.stdev(prices) / statistics.mean(prices), len(prices) >= 2:
\* var > mean^2 / 4 with var = (n*sum(x^2) - sum(x)^2) / (n*(n-1)).
\* The test does not change when every price is divided by a common divisor, which
\* keeps the products small.
RECURSIVE Gcd(_, _)
Gcd(a, b) == IF b = 0 THEN a ELSE Gcd(b, a % b)

RECURSIVE GcdSeq(_)
GcdSeq(s) == IF s = <<>> THEN 0 ELSE Gcd(Head(s), GcdSeq(Tail(s)))

\* a / b > c / d for a, c >= 0 and b, d > 0, without forming a * d or c * b.
FracGreater(a, b, c, d) ==
    \/ a \div b > c \div d
    \/ a \div b = c \div d /\ (a % b) * d > (c % d) * b

HighVariance(prices) ==
    LET g == GcdSeq(prices)
        scaled == [i \in DOMAIN prices |-> prices[i] \div g]
        n == Len(scaled)
        s == SumSeq(scaled)
    IN  FracGreater(n * SumSq(scaled) - s * s, n - 1, s * s, 4 * n)

\* _calculate_recommendation. ref2 is twice the reference price in cents, or NULL.
\* max_buy is net * fnum / fden, with net = net200 / 200 cents.
calculate_recommendation(ref2, sold_prices, sell_through) ==
    IF ref2 = NULL \/ ref2 = 0
    THEN [max_buy_price |-> NULL, estimated_sell_price |-> NULL, net_after_fees |-> NULL,
          estimated_profit |-> NULL, roi_percent |-> NULL, confidence |-> "low",
          spread_warning |-> FALSE, liquidity_warning |-> FALSE]
    ELSE
    LET net200 == 87 * ref2 - 140000
        confidence == IF Len(sold_prices) >= 10 THEN "high"
                      ELSE IF Len(sold_prices) >= 5 THEN "medium"
                      ELSE "low"
        spread == Len(sold_prices) >= 3 /\ HighVariance(sold_prices)
        liquidity == sell_through.liquidity
        \* 1 / 1.40, then * 0.8, then * 0.6 or * 0.85
        fnum == 5 * (IF spread THEN 4 ELSE 1)
                  * (IF liquidity = "dead" THEN 3 ELSE IF liquidity = "slow" THEN 17 ELSE 1)
        fden == 7 * (IF spread THEN 5 ELSE 1)
                  * (IF liquidity = "dead" THEN 5 ELSE IF liquidity = "slow" THEN 20 ELSE 1)
    IN  [max_buy_price |-> IF net200 > 0 THEN RoundHE(net200 * fnum, 200 * fden) ELSE 0,
         estimated_sell_price |-> RoundHE(ref2, 2),
         net_after_fees |-> RoundHE(net200, 200),
         estimated_profit |-> IF net200 > 0
                              THEN RoundHE(net200 * (fden - fnum), 200 * fden) ELSE 0,
         \* in tenths of a percent
         roi_percent |-> IF net200 > 0 THEN RoundHE(1000 * (fden - fnum), fnum) ELSE 0,
         confidence |-> confidence,
         spread_warning |-> spread,
         liquidity_warning |-> liquidity \in {"dead", "slow"}]

\* _calculate_deal_score past its NO DATA return: the weighted composite, held times
\* 2000, and the verdict read from it.
composite_deal_score(rec, sell_through) ==
    LET roi == rec.roi_percent
        \* in tenths
        profit_score == IF roi >= 1000 THEN 1000
                        ELSE IF roi >= 600 THEN 800
                        ELSE IF roi >= 400 THEN 600
                        ELSE IF roi >= 200 THEN 400
                        ELSE Max2(roi, 0)
        \* in twentieths
        str_score == IF sell_through.sell_through_pct # NULL
                     THEN Min2(3 * sell_through.sell_through_pct, 2000)
                     ELSE IF sell_through.liquidity = "hot" THEN 1600
                     ELSE IF sell_through.liquidity = "steady" THEN 1100
                     ELSE 600
        conf_score == IF rec.confidence = "high" THEN 100
                      ELSE IF rec.confidence = "medium" THEN 60 ELSE 25
        risk_score == Max2(80 - (IF rec.spread_warning THEN 30 ELSE 0)
                              - (IF rec.liquidity_warning THEN 20 ELSE 0), 0)
        composite == 80 * profit_score + 35 * str_score + 300 * conf_score + 200 * risk_score
    IN  [score |-> RoundHE(composite, 2000),
         verdict |-> IF composite >= 150000 THEN "HOT DEAL"
                     ELSE IF composite >= 110000 THEN "GOOD DEAL"
                     ELSE IF composite >= 70000 THEN "OKAY"
                     ELSE "PASS",
         composite2000 |-> composite]

\* _calculate_deal_score with the NO DATA return left out.
calculate_deal_score_always_scored(rec, sell_through) ==
    composite_deal_score(rec, sell_through)
\* _calculate_deal_score
calculate_deal_score(rec, sell_through) ==
    IF rec.estimated_profit = NULL \/ rec.max_buy_price = NULL
    THEN [score |-> 0, verdict |-> "NO DATA", composite2000 |-> 0]
    ELSE composite_deal_score(rec, sell_through)

\* analyze_prices
analyze_prices(active_listings, sold_listings, total_active, total_sold, total_completed, now) ==
    LET active_prices == PositivePrices(active_listings)
        sold_prices == PositivePrices(sold_listings)
        median_asking == IF active_prices # <<>> THEN Median2(active_prices) ELSE NULL
        median_sold == IF sold_prices # <<>> THEN Median2(sold_prices) ELSE NULL
        reference_price == IF median_sold # NULL THEN median_sold ELSE median_asking
        sell_through == calc_sell_through(sold_listings, total_sold, total_completed, now)
        recommendation == calculate_recommendation(reference_price, sold_prices, sell_through)
    IN  [active_listings_count |-> Len(active_prices),
         sold_listings_count |-> Len(sold_prices),
         sell_through |-> sell_through,
         recommendation |-> recommendation,
         deal_score |-> calculate_deal_score(recommendation, sell_through)]

\* ------------------------------------------------------- listings and URLs
\* A NormalizedListing keeps the fields the pipeline reads: price (cents or NULL),
\* item_url and listing_type. "via" records which adapter built it (both eBay
\* adapters write source "ebay", so the code itself cannot tell them apart).
Listing(price, url, listing_type, via) ==
    [price |-> price, item_url |-> url, listing_type |-> listing_type, via |-> via,
     sold_date |-> NULL]

\* The item URLs the marketplaces answer with.
ItmUrls == {"https://www.ebay.com/itm/101", "https://www.ebay.com/itm/101?hash=a",
            "https://www.ebay.com/itm/camera/102", "https://www.ebay.com/itm/lot-x1"}
Urls == ItmUrls \cup {"https://www.ebay.com/p/55", ""}

\* "/itm/" in url
HasItmMarker(url) == url \in ItmUrls

\* url.split("/itm/")[-1].split("?")[0].split("/")[-1]
UrlTail(url) ==
    CASE url = "https://www.ebay.com/itm/101" -> "101"
      [] url = "https://www.ebay.com/itm/101?hash=a" -> "101"
      [] url = "https://www.ebay.com/itm/camera/102" -> "102"
      [] url = "https://www.ebay.com/itm/lot-x1" -> "lot-x1"
      [] OTHER -> url

\* str.isdigit()
IsDigit(str) == str \in {"101", "102"}

\* _extract_ebay_id
extract_ebay_id(url) ==
    IF HasItmMarker(url) /\ IsDigit(UrlTail(url)) THEN UrlTail(url) ELSE url

\* --------------------------------------------------------- source adapters
\* What a call of an adapter ends with: an exception, or (items, total).
Raised == [state |-> "raised", items |-> <<>>, total |-> 0]
Returned(items, total) == [state |-> "returned", items |-> items, total |-> total]
\* A task that has not finished yet.
Pending == [state |-> "pending", items |-> <<>>, total |-> 0]

\* An HTTP exchange as the adapter sees it: a transport error, a non-2xx status,
\* a 2xx body that does not parse, or a 2xx body holding raw items and a total.
Failures == {[kind |-> k, items |-> <<>>, total |-> 0] :
                k \in {"network_error", "http_error", "bad_payload"}}
Ok(items, total) == [kind |-> "ok", items |-> items, total |-> total]

\* Raw items of a payload: the price as sent (cents, NULL when absent) and the URL.
Raw(price, url) == [price |-> price, url |-> url]

\* Browse API bodies (itemSummaries, total).
BrowseResponses == Failures \cup
    { Ok(<<>>, 0),
      Ok(<<Raw(2000, "https://www.ebay.com/itm/101"),
           Raw(3000, "https://www.ebay.com/itm/101?hash=a")>>, 2),
      Ok(<<Raw(2000, "https://www.ebay.com/itm/101"),
           Raw(4500, "https://www.ebay.com/itm/camera/102"),
           Raw(NULL, "https://www.ebay.com/itm/lot-x1")>>, 40) }

\* Finding API bodies (searchResult, totalEntries).
FindingResponses == Failures \cup
    { Ok(<<>>, 0),
      Ok(<<Raw(9000, ""), Raw(9000, ""), Raw(9000, "")>>, 3) }

\* The OAuth token exchange of the Browse API: it ends well or raises.
TokenResponses == {"ok", "network_error", "http_error"}

RECURSIVE Normalize(_, _, _)
Normalize(raw, listing_type, via) ==
    IF raw = <<>> THEN <<>>
    ELSE <<Listing(Head(raw).price, Head(raw).url, listing_type, via)>>
         \o Normalize(Tail(raw), listing_type, via)

\* search_active_listings: _get_oauth_token, then the GET, raise_for_status and
\* resp.json(), none of them inside a try.
search_active_listings(token, resp) ==
    IF token # "ok" THEN Raised
    ELSE IF resp.kind # "ok" THEN Raised
    ELSE Returned(Normalize(resp.items, "active", "api"), resp.total)

\* _finding_api_search: the GET, raise_for_status and _parse_finding_items.
finding_api_search(resp) ==
    IF resp.kind # "ok" THEN Raised
    ELSE Returned(Normalize(resp.items, "sold", "api"), resp.total)

\* search_sold_listings
search_sold_listings(resp) == finding_api_search(resp)

\* search_completed_listings
search_completed_listings(resp) == finding_api_search(resp)

\* Every way the two searches of a scan can end.
ActiveResults ==
    {search_active_listings(token, resp) : token \in TokenResponses, resp \in BrowseResponses}
SoldResults == {search_sold_listings(resp) : resp \in FindingResponses}

\* A scraped results page: its count heading (absent, a number first, or a comma
\* before any digit, which int() cannot read) and its listing cards.
Page(heading, total, items) == [heading |-> heading, total |-> total, items |-> items]
NoPage == Page("none", 0, <<>>)

\* What one HTTP client of the scraper gets: no page (a transport error or a
\* status other than 200) or a page.
ScrapeResponses ==
    { [ok |-> FALSE, page |-> NoPage],
      [ok |-> TRUE, page |-> Page("absent", 0, <<>>)],
      [ok |-> TRUE, page |-> Page("number", 12,
                                  <<Raw(2500, "https://www.ebay.com/itm/101")>>)],
      [ok |-> TRUE, page |-> Page("comma_first", 0,
                                  <<Raw(2500, "https://www.ebay.com/itm/101")>>)] }

\* _fetch_page: the curl_cffi session when installed, else (or on its failure) httpx;
\* the soup, or None.
fetch_page(has_curl, curl_resp, httpx_resp) ==
    IF has_curl /\ curl_resp.ok THEN [soup |-> TRUE, page |-> curl_resp.page]
    ELSE IF httpx_resp.ok THEN [soup |-> TRUE, page |-> httpx_resp.page]
    ELSE [soup |-> FALSE, page |-> NoPage]

\* scrape_active_listings / scrape_sold_listings / scrape_completed_listings:
\* ([], 0) without a soup; _parse_total raises ValueError on int("") when the
\* heading's first [\d,]+ match holds no digit.
scrape_listings(fetched, listing_type) ==
    IF ~fetched.soup THEN Returned(<<>>, 0)
    ELSE IF fetched.page.heading = "comma_first" THEN Raised
    ELSE Returned(Normalize(fetched.page.items, listing_type, "scrape"),
                  IF fetched.page.heading = "number" THEN fetched.page.total ELSE 0)

\* Poshmark and Mercari bodies; Poshmark prices arrive in dollars, Mercari prices
\* in cents.
PoshmarkResponses == Failures \cup
    { Ok(<<>>, 0), Ok(<<Raw(25, "https://poshmark.com/listing/p1"), Raw(NULL, "https://poshmark.com/listing/p2")>>, 0) }
MercariResponses == Failures \cup
    { Ok(<<>>, 0), Ok(<<Raw(1999, "https://www.mercari.com/us/item/m1")>>, 0) }
FacebookResponses == Failures \cup
    { Ok(<<Raw(1500, "https://www.facebook.com/marketplace/item/f1")>>, 0) }

RECURSIVE NormalizeScaled(_, _, _)
NormalizeScaled(raw, scale, via) ==
    IF raw = <<>> THEN <<>>
    ELSE <<Listing(IF Head(raw).price = NULL THEN NULL ELSE Head(raw).price * scale,
                   Head(raw).url, "active", via)>>
         \o NormalizeScaled(Tail(raw), scale, via)

\* search_poshmark: the whole body is inside try/except Exception.
search_poshmark(resp) ==
    IF resp.kind # "ok" THEN Returned(<<>>, 0)
    ELSE Returned(NormalizeScaled(resp.items, 100, "poshmark"), 0)

\* search_mercari: the whole body is inside try/except Exception.
search_mercari(resp) ==
    IF resp.kind # "ok" THEN Returned(<<>>, 0)
    ELSE Returned(NormalizeScaled(resp.items, 1, "mercari"), 0)

\* search_facebook: [] when disabled or not connected, and on any exception.
search_facebook(enabled, connected, resp) ==
    IF ~enabled \/ ~connected THEN Returned(<<>>, 0)
    ELSE IF resp.kind # "ok" THEN Returned(<<>>, 0)
    ELSE Returned(NormalizeScaled(resp.items, 1, "facebook"), 0)

\* -------------------------------------------------------------- aggregator
Modes == {"api", "scrape", "auto"}
\* EBAY_APP_ID as the environment sets it.
AppIds == {"", "your-ebay-app-id", "app-1234"}

\* _api_keys_configured
api_keys_configured(app_id) == app_id # "" /\ app_id # "your-ebay-app-id"

\* ([], 0) if isinstance(r, Exception) else r
Degrade(r) ==
    IF r.state = "raised" THEN [items |-> <<>>, total |-> 0]
    ELSE [items |-> r.items, total |-> r.total]

\* Variant: one failed sub-search empties the whole result.
GatheredAllOrNothing(active_r, sold_r, completed_r, source_mode) ==
    LET any_raised == "raised" \in {active_r.state, sold_r.state, completed_r.state}
    IN  [active |-> IF any_raised THEN <<>> ELSE active_r.items,
         sold |-> IF any_raised THEN <<>> ELSE sold_r.items,
         total_active |-> IF any_raised THEN 0 ELSE active_r.total,
         total_sold |-> IF any_raised THEN 0 ELSE sold_r.total,
         total_completed |-> IF any_raised THEN 0 ELSE completed_r.total,
         source_mode |-> source_mode]
\* The dict search_all and scrape_all build from the three gathered results.
Gathered(active_r, sold_r, completed_r, source_mode) ==
    [active |-> Degrade(active_r).items,
     sold |-> Degrade(sold_r).items,
     total_active |-> Degrade(active_r).total,
     total_sold |-> Degrade(sold_r).total,
     total_completed |-> Degrade(completed_r).total,
     source_mode |-> source_mode]

\* The label search_all writes on scrape_all's result.
ScrapeLabel == "scrape"

\* The result search_all ends with when no adapter is left to use.
NoneResult ==
    [active |-> <<>>, sold |-> <<>>, total_active |-> 0, total_sold |-> 0,
     total_completed |-> 0, source_mode |-> "none"]

\* Variant: the API result is used whatever it holds.
ApiServesAlways(r) == TRUE
\* if active or sold: the API result is used.
ApiServes(r) == r.active # <<>> \/ r.sold # <<>>

\* Variant: no fall-back to the scraper after the API path.
FallsBackNever(mode) == FALSE
\* Variant: the fall-back is taken in every mode.
FallsBackAlways(mode) == TRUE
\* if mode != "api": use_scrape = True
FallsBack(mode) == mode # "api"

Slots == {"active", "sold", "completed"}
AllPending == [sl \in Slots |-> Pending]
Platforms == {"poshmark", "mercari", "facebook"}

VARIABLES
    scanner_running,   \* deal_scanner._scanner_running
    scanner_task,      \* deal_scanner._scanner_task: 0 is None, else an index of tasks
    tasks,             \* every asyncio task created so far, with its position
    cycles_begun,      \* scan cycles begun so far
    watch_queries,     \* the rows of table watch_queries
    opportunities,     \* the rows of table opportunities
    calls,             \* what the latest calls start(), start(), stop(), stop() returned
    stop_accepted,     \* stop() returned True and start() was not called since
    dup_ignored,       \* some add_opportunity met a row that another scan had stored
    agg,               \* one search_all call: its position, inputs, tasks and result
    plat,              \* one search_all_platforms call
    ebay_mode,         \* settings.json: "ebay_mode" as last saved
    pricing,           \* the arguments of analyze_prices and what its calls returned
    inventory_items,   \* the rows inventory.add_item has inserted so far (their count)
    deleted_watch,     \* the ids of the watch queries deleted so far
    scanned,           \* one _scan_one_query call: its arguments, what its searches
                       \* returned and the dicts it handed to add_opportunity
    oauth              \* ebay_service._token_cache, the clock and the callers of
                       \* _get_oauth_token

scannerVars == <<scanner_running, scanner_task, tasks, cycles_begun, watch_queries,
                 opportunities, calls, stop_accepted, dup_ignored>>
workflowVars == <<inventory_items, deleted_watch>>
restVars == <<ebay_mode, pricing, workflowVars, scanned, oauth>>
aggVars == <<agg, plat, restVars>>

vars == <<scannerVars, aggVars>>

\* ---------------------------------------------------------------- inventory
\* The thresholds a user gives a watch query (money in cents, NULL for no max).
WatchConfigs ==
    { [max_buy_price |-> NULL, min_profit |-> 500, min_deal_score |-> 50],
      [max_buy_price |-> 2500, min_profit |-> 500, min_deal_score |-> 80] }

\* list_watch_queries(enabled_only=True): WHERE enabled = 1 ORDER BY created_at DESC,
\* the snapshot of each row that a scan reads (its id and thresholds).
RECURSIVE NewestFirst(_)
NewestFirst(rows) ==
    IF rows = {} THEN <<>>
    ELSE LET newest == CHOOSE r \in rows : \A o \in rows : o.id <= r.id
         IN  <<[id |-> newest.id, config |-> newest.config]>> \o NewestFirst(rows \ {newest})

list_watch_queries_enabled == NewestFirst({r \in watch_queries : r.enabled})

\* INSERT OR IGNORE against the unique index idx_opp_ebay_id: is the row ignored?
\* Variant: no unique index on ebay_item_id, every INSERT adds a row.
InsertNeverIgnored(data) == FALSE
InsertIgnored(data) == \E o \in opportunities : o.ebay_item_id = data.ebay_item_id

\* str(uuid.uuid4()): an id that no row of the table has.
FreshId(ids) == IF ids = {} THEN 1 ELSE 1 + CHOOSE i \in ids : \A j \in ids : j <= i

\* add_opportunity: the row inserted with status 'new', or nothing when ignored;
\* the row is returned only if db.total_changes > 0.
add_opportunity(data) ==
    IF InsertIgnored(data)
    THEN [rows |-> opportunities, returned |-> FALSE, raised |-> FALSE]
    ELSE [rows |-> opportunities \cup
                   {[id |-> FreshId({o.id : o \in opportunities}), watch_query_id |-> data.watch_query_id,
                     ebay_item_id |-> data.ebay_item_id, current_price |-> data.current_price,
                     estimated_sell_price |-> data.estimated_sell_price,
                     estimated_profit |-> data.estimated_profit,
                     deal_score |-> data.deal_score, deal_verdict |-> data.deal_verdict,
                     item_url |-> data.item_url, status |-> "new",
                     inventory_item_id |-> NULL]},
          returned |-> TRUE, raised |-> FALSE]

\* update_opportunity_status: UPDATE opportunities SET status = ? (and
\* inventory_item_id = ? when one is given) WHERE id = ?
update_opportunity_status(opp_id, status, inventory_item_id) ==
    { IF o.id = opp_id
      THEN IF inventory_item_id # NULL
           THEN [o EXCEPT !.status = status, !.inventory_item_id = inventory_item_id]
           ELSE [o EXCEPT !.status = status]
      ELSE o : o \in opportunities }

\* mark_watch_scanned that sets opportunities_found to the count of the scan instead of
\* adding to it.
mark_watch_scanned_overwrites(wq_id, new_opps) ==
    { IF r.id = wq_id
      THEN [r EXCEPT !.last_scanned = r.scan_count + 1, !.scan_count = @ + 1,
                     !.opportunities_found = new_opps]
      ELSE r : r \in watch_queries }
\* mark_watch_scanned: one UPDATE ... WHERE id = ?  The time written to last_scanned
\* is held as the ordinal of this scan of the row.
mark_watch_scanned(wq_id, new_opps) ==
    { IF r.id = wq_id
      THEN [r EXCEPT !.last_scanned = r.scan_count + 1, !.scan_count = @ + 1,
                     !.opportunities_found = @ + new_opps]
      ELSE r : r \in watch_queries }

\* ------------------------------------------------------------ deal_scanner
\* The dict _scan_one_query hands to add_opportunity for one active listing, or
\* the reason the listing is skipped.
ItemProfit100(est_sell, price) == 87 * est_sell - 70000 - 100 * price

\* The bonus without the cap at 100.
ItemScoreUncapped(score, profit100, price) ==
    IF profit100 > 100 * price THEN score + 15
    ELSE IF profit100 > 60 * price THEN score + 5
    ELSE score
ItemScore(score, profit100, price) ==
    IF profit100 > 100 * price THEN Min2(score + 15, 100)
    ELSE IF profit100 > 60 * price THEN Min2(score + 5, 100)
    ELSE score

ItemVerdict(verdict, profit100, price) ==
    IF profit100 >= 80 * price THEN "HOT DEAL"
    ELSE IF profit100 >= 50 * price THEN "GOOD DEAL"
    ELSE verdict

\* The filters without the first one, which skips a listing that has no price.
PassesUnpriced(wq, item, est_sell, score) ==
    /\ ~(wq.config.max_buy_price # NULL /\ item.price > wq.config.max_buy_price)
    /\ est_sell # NULL /\ est_sell > 0
    /\ ItemProfit100(est_sell, item.price) >= 100 * wq.config.min_profit
    /\ ItemScore(score, ItemProfit100(est_sell, item.price), item.price)
         >= wq.config.min_deal_score
\* The filters of the loop over active_items, in the order of the code.
Passes(wq, item, est_sell, score) ==
    /\ item.price # NULL /\ item.price > 0
    /\ ~(wq.config.max_buy_price # NULL /\ item.price > wq.config.max_buy_price)
    /\ est_sell # NULL /\ est_sell > 0
    /\ ItemProfit100(est_sell, item.price) >= 100 * wq.config.min_profit
    /\ ItemScore(score, ItemProfit100(est_sell, item.price), item.price)
         >= wq.config.min_deal_score

OppData(wq, item, est_sell, deal) ==
    LET profit100 == ItemProfit100(est_sell, item.price)
    IN  [watch_query_id |-> wq.id,
         ebay_item_id |-> extract_ebay_id(item.item_url),
         current_price |-> item.price,
         estimated_sell_price |-> est_sell,
         estimated_profit |-> RoundHE(profit100, 100),
         deal_score |-> ItemScore(deal.score, profit100, item.price),
         deal_verdict |-> ItemVerdict(deal.verdict, profit100, item.price),
         item_url |-> item.item_url]

RECURSIVE Candidates(_, _, _, _)
Candidates(wq, items, est_sell, deal) ==
    IF items = <<>> THEN <<>>
    ELSE (IF Passes(wq, Head(items), est_sell, deal.score)
          THEN <<OppData(wq, Head(items), est_sell, deal)>> ELSE <<>>)
         \o Candidates(wq, Tail(items), est_sell, deal)

\* _scan_one_query that gives up when the sold search raised.
ScanCandidatesNeedSold(wq, active_result, sold_result) ==
    IF active_result.state = "raised" \/ sold_result.state = "raised" THEN <<>>
    ELSE IF active_result.items = <<>> THEN <<>>
    ELSE LET priced == analyze_prices(active_result.items, sold_result.items,
                                      active_result.total, sold_result.total,
                                      sold_result.total, 1)
         IN  Candidates(wq, active_result.items,
                        priced.recommendation.estimated_sell_price, priced.deal_score)
\* _scan_one_query from the gathered results to its loop over active_items: the
\* dicts it will insert, in order. Nothing when the active search raised or is empty.
ScanCandidates(wq, active_result, sold_result) ==
    IF active_result.state = "raised" THEN <<>>
    ELSE LET sold == Degrade(sold_result)
         IN  IF active_result.items = <<>> THEN <<>>
             \* The recommendation and the deal score do not depend on the clock.
             ELSE LET priced == analyze_prices(active_result.items, sold.items,
                                               active_result.total, sold.total, sold.total, 1)
                  IN  Candidates(wq, active_result.items,
                                 priced.recommendation.estimated_sell_price,
                                 priced.deal_score)

\* The adapters the two searches of _scan_one_query go through: the functions it
\* imports and awaits are ebay_service.search_active_listings and
\* search_sold_listings, and no setting is read.
ScanAdapters(mode) == {"api"}

\* ------------------------------------------------------------- task records
\* fetch_failed: the active search of the running _scan_one_query raised.
\* loaded and begun: the ids of the watch queries the running cycle of the task loaded,
\* and of those whose _scan_one_query it has called so far, both in order.
\* fetch_mode and fetch_via: the ebay_mode in force when the task's latest scan made
\* its searches, and the adapters those searches went through.
NewTask(kind, pc) ==
    [kind |-> kind, pc |-> pc, queue |-> <<>>, pending |-> <<>>, new_count |-> 0, tick |-> 0,
     fetch_mode |-> "", fetch_via |-> {}, loaded |-> <<>>, begun |-> <<>>,
     fetch_failed |-> FALSE]

\* asyncio.Task.done()
TaskDone(t) == tasks[t].pc = "done"

LiveLoops == {t \in DOMAIN tasks : tasks[t].kind = "loop" /\ ~TaskDone(t)}

\* is_scanner_running()
is_scanner_running ==
    scanner_running /\ scanner_task # 0 /\ ~TaskDone(scanner_task)

\* No loop exists and the flag is down: the scanner as it is before any start().
ScannerStopped == ~scanner_running /\ LiveLoops = {}

\* The call log follows the sequence start(), start(), stop(), stop() made from a
\* stopped scanner with no task step in between: it holds what the calls of the
\* sequence made so far returned, and starts over on any other call.
CallPattern == <<"start", "start", "stop", "stop">>
Logged(op, ret) ==
    IF Len(calls) < Len(CallPattern) /\ CallPattern[Len(calls) + 1] = op
       /\ (calls = <<>> => ScannerStopped)
    THEN Append(calls, ret)
    ELSE IF op = "start" /\ ScannerStopped THEN <<ret>>
    ELSE <<>>

\* ---------------------------------------------------------- start / stop
\* The guard of start_scanner: a loop task exists and is not done.
\* Variant: the test on the task is inverted (start is refused once the task is done).
StartRefusedWhenDone == scanner_task # 0 /\ TaskDone(scanner_task)
\* Variant: start() consults the flag instead of the task.
StartRefusedByFlag == scanner_running
StartRefused == scanner_task # 0 /\ ~TaskDone(scanner_task)

\* start_scanner()
start_scanner ==
    /\ IF StartRefused
       THEN /\ calls' = Logged("start", FALSE)
            /\ UNCHANGED <<scanner_running, scanner_task, tasks>>
       ELSE /\ Len(tasks) < MaxTasks
            /\ scanner_running' = TRUE
            /\ tasks' = Append(tasks, NewTask("loop", "created"))
            /\ scanner_task' = Len(tasks) + 1
            /\ calls' = Logged("start", TRUE)
    /\ stop_accepted' = FALSE
    /\ UNCHANGED <<cycles_begun, watch_queries, opportunities, dup_ignored, aggVars>>

\* stop_scanner()
stop_scanner ==
    /\ IF ~scanner_running
       THEN /\ calls' = Logged("stop", FALSE)
            /\ UNCHANGED <<scanner_running, stop_accepted>>
       ELSE /\ scanner_running' = FALSE
            /\ stop_accepted' = TRUE
            /\ calls' = Logged("stop", TRUE)
    /\ UNCHANGED <<scanner_task, tasks, cycles_begun, watch_queries, opportunities,
                   dup_ignored, aggVars>>

\* POST /api/scanner/scan-now: asyncio.create_task(run_scan_cycle())
scan_now ==
    /\ Len(tasks) < MaxTasks
    /\ tasks' = Append(tasks, NewTask("now", "load"))
    /\ cycles_begun' = cycles_begun + 1
    /\ calls' = <<>>
    /\ UNCHANGED <<scanner_running, scanner_task, watch_queries, opportunities, stop_accepted,
                   dup_ignored, aggVars>>

\* POST /api/watch: add_watch_query
add_watch_query(config, enabled) ==
    /\ Cardinality(watch_queries) + Cardinality(deleted_watch) < MaxWatch
    /\ watch_queries' = watch_queries \cup
           {[id |-> Cardinality(watch_queries) + Cardinality(deleted_watch) + 1, config |-> config, enabled |-> enabled,
             last_scanned |-> NULL, scan_count |-> 0, opportunities_found |-> 0]}
    /\ calls' = <<>>
    /\ UNCHANGED <<scanner_running, scanner_task, tasks, cycles_begun, opportunities,
                   stop_accepted, dup_ignored, aggVars>>

\* DELETE /api/watch/{wq_id}: delete_watch_query removes the row and the
\* opportunities that carry its id.
delete_watch_query(wq_id) ==
    /\ watch_queries' = {r \in watch_queries : r.id # wq_id}
    /\ opportunities' = {o \in opportunities : o.watch_query_id # wq_id}
    /\ deleted_watch' = deleted_watch \cup {r.id : r \in {w \in watch_queries : w.id = wq_id}}
    /\ calls' = <<>>
    /\ UNCHANGED <<scanner_running, scanner_task, tasks, cycles_begun, stop_accepted,
                   dup_ignored, agg, plat, ebay_mode, pricing, inventory_items, scanned,
                   oauth>>

\* POST /api/opportunities/{opp_id}/dismiss: 404 without the row, else
\* update_opportunity_status(opp_id, "dismissed")
dismiss_opportunity(opp_id) ==
    /\ \E o \in opportunities : o.id = opp_id
    /\ opportunities' = update_opportunity_status(opp_id, "dismissed", NULL)
    /\ calls' = <<>>
    /\ UNCHANGED <<scanner_running, scanner_task, tasks, cycles_begun, watch_queries,
                   stop_accepted, dup_ignored, aggVars>>

\* POST /api/opportunities/{opp_id}/purchase: 404 without the row, else
\* purchase_and_relist adds an inventory item and sets the opportunity to purchased
\* with the id of that item.
purchase_opportunity(opp_id) ==
    /\ \E o \in opportunities : o.id = opp_id
    /\ inventory_items < MaxItems
    /\ inventory_items' = inventory_items + 1
    /\ opportunities' = update_opportunity_status(opp_id, "purchased", inventory_items + 1)
    /\ calls' = <<>>
    /\ UNCHANGED <<scanner_running, scanner_task, tasks, cycles_begun, watch_queries,
                   stop_accepted, dup_ignored, agg, plat, ebay_mode, pricing, deleted_watch,
                   scanned, oauth>>

\* PUT /api/settings with an ebay_mode: settings.save
update_settings(mode) ==
    /\ mode \in Modes
    /\ ebay_mode # mode
    /\ ebay_mode' = mode
    /\ UNCHANGED <<scannerVars, agg, plat, pricing, workflowVars, scanned, oauth>>

\* ------------------------------------------------------------ _scanner_loop
\* Where a task goes when its run_scan_cycle has ended (normally, or for a loop by
\* the exception handler of _scanner_loop): a scan-now task is done; a loop enters
\* "for _ in range(INTERVAL_MINUTES * 60)", which breaks at once and leaves the
\* while loop if the flag is down, and else starts the first asyncio.sleep(1).
AfterCycle(task, running) ==
    LET ended == [task EXCEPT !.queue = <<>>, !.loaded = <<>>, !.begun = <<>>,
                              !.fetch_failed = FALSE]
    IN  IF task.kind = "now" THEN [ended EXCEPT !.pc = "done"]
        ELSE IF IntervalTicks > 0 /\ running
        THEN [ended EXCEPT !.pc = "sleep", !.tick = 1]
        ELSE IF running
        THEN [ended EXCEPT !.pc = "load"]
        ELSE [ended EXCEPT !.pc = "done"]

\* _scanner_loop, first step of the task: raise the flag, pass the while test and
\* call run_scan_cycle, which awaits list_watch_queries.
LoopEnter(t) ==
    /\ tasks[t].kind = "loop" /\ tasks[t].pc = "created"
    /\ scanner_running' = TRUE
    /\ tasks' = [tasks EXCEPT ![t].pc = "load"]
    /\ cycles_begun' = cycles_begun + 1
    /\ calls' = <<>>
    /\ UNCHANGED <<scanner_task, watch_queries, opportunities, stop_accepted,
                   dup_ignored, aggVars>>

\* One asyncio.sleep(1) of the inter-cycle sleep returns: the for loop ends after
\* INTERVAL_MINUTES * 60 rounds or breaks when the flag is down, then the while
\* test either starts the next cycle or ends the task.
LoopTick(t) ==
    /\ tasks[t].kind = "loop" /\ tasks[t].pc = "sleep"
    /\ IF tasks[t].tick < IntervalTicks /\ scanner_running
       THEN /\ tasks' = [tasks EXCEPT ![t].tick = @ + 1]
            /\ UNCHANGED cycles_begun
       ELSE IF scanner_running
       THEN /\ cycles_begun < MaxCycles
            /\ tasks' = [tasks EXCEPT ![t].pc = "load", ![t].tick = 0]
            /\ cycles_begun' = cycles_begun + 1
       ELSE /\ tasks' = [tasks EXCEPT ![t].pc = "done", ![t].tick = 0]
            /\ UNCHANGED cycles_begun
    /\ calls' = <<>>
    /\ UNCHANGED <<scanner_running, scanner_task, watch_queries, opportunities, stop_accepted,
                   dup_ignored, aggVars>>

\* ------------------------------------------------------------ run_scan_cycle
\* list_watch_queries(enabled_only=True) answers (or raises: db_ok is FALSE). With
\* no query the cycle returns; else the first _scan_one_query starts its searches.
CycleLoad(t, db_ok) ==
    /\ tasks[t].pc = "load"
    /\ LET queries == list_watch_queries_enabled
       IN  IF db_ok /\ queries # <<>>
           THEN tasks' = [tasks EXCEPT ![t].pc = "fetch", ![t].queue = queries,
                                       ![t].loaded = [i \in DOMAIN queries |-> queries[i].id],
                                       ![t].begun = <<queries[1].id>>]
           ELSE tasks' = [tasks EXCEPT ![t] = AfterCycle(tasks[t], scanner_running)]
    /\ calls' = <<>>
    /\ UNCHANGED <<scanner_running, scanner_task, cycles_begun, watch_queries,
                   opportunities, stop_accepted, dup_ignored, aggVars>>

\* asyncio.gather(search_active_listings, search_sold_listings) returns in
\* _scan_one_query: the candidates are computed; with none the scan returns 0 and
\* run_scan_cycle calls mark_watch_scanned, else the first add_opportunity is called.
ScanFetch(t, active_result, sold_result) ==
    /\ tasks[t].pc = "fetch"
    /\ LET cands == ScanCandidates(Head(tasks[t].queue), active_result, sold_result)
       IN  tasks' = [tasks EXCEPT ![t].pc = IF cands = <<>> THEN "mark" ELSE "insert",
                                  ![t].pending = cands, ![t].new_count = 0,
                                  ![t].fetch_failed = (active_result.state = "raised"),
                                  ![t].fetch_mode = ebay_mode,
                                  ![t].fetch_via = ScanAdapters(ebay_mode)]
    /\ calls' = <<>>
    /\ UNCHANGED <<scanner_running, scanner_task, cycles_begun, watch_queries,
                   opportunities, stop_accepted, dup_ignored, aggVars>>

\* One add_opportunity of the scan returns (or raises: db_ok is FALSE, and the
\* handler of run_scan_cycle logs it and goes to its sleep(1) without marking).
ScanInsert(t, db_ok) ==
    /\ tasks[t].pc = "insert"
    /\ LET data == Head(tasks[t].pending)
           done == add_opportunity(data)
           count == tasks[t].new_count + (IF done.returned THEN 1 ELSE 0)
       IN  IF db_ok /\ ~done.raised
           THEN /\ opportunities' = done.rows
                /\ dup_ignored' = (dup_ignored \/
                                       (InsertIgnored(data) /\ tasks[t].new_count = 0))
                /\ tasks' = [tasks EXCEPT ![t].new_count = count,
                                          ![t].pending = Tail(@),
                                          ![t].pc = IF Tail(tasks[t].pending) = <<>>
                                                    THEN "mark" ELSE "insert"]
           ELSE /\ tasks' = [tasks EXCEPT ![t].pc = "pause", ![t].pending = <<>>,
                                          ![t].fetch_failed = FALSE]
                /\ UNCHANGED <<opportunities, dup_ignored>>
    /\ calls' = <<>>
    /\ UNCHANGED <<scanner_running, scanner_task, cycles_begun, watch_queries,
                   stop_accepted, aggVars>>

\* mark_watch_scanned with no handler around it: when it raises, the cycle ends.
ScanMarkUnhandled(t, db_ok) ==
    /\ tasks[t].pc = "mark"
    /\ IF db_ok
       THEN /\ watch_queries' = mark_watch_scanned(Head(tasks[t].queue).id, tasks[t].new_count)
            /\ tasks' = [tasks EXCEPT ![t].pc = "pause", ![t].new_count = 0,
                                 ![t].fetch_failed = FALSE]
       ELSE /\ UNCHANGED watch_queries
            /\ tasks' = [tasks EXCEPT ![t] = AfterCycle(tasks[t], scanner_running)]
    /\ calls' = <<>>
    /\ UNCHANGED <<scanner_running, scanner_task, cycles_begun, opportunities,
                   stop_accepted, dup_ignored, aggVars>>
\* mark_watch_scanned(wq["id"], new_count) returns (or raises and is logged); the
\* cycle goes to its asyncio.sleep(1).
ScanMark(t, db_ok) ==
    /\ tasks[t].pc = "mark"
    /\ IF db_ok
       THEN watch_queries' = mark_watch_scanned(Head(tasks[t].queue).id, tasks[t].new_count)
       ELSE UNCHANGED watch_queries
    /\ tasks' = [tasks EXCEPT ![t].pc = "pause", ![t].new_count = 0,
                                 ![t].fetch_failed = FALSE]
    /\ calls' = <<>>
    /\ UNCHANGED <<scanner_running, scanner_task, cycles_begun, opportunities,
                   stop_accepted, dup_ignored, aggVars>>

\* The sleep(1) between two queries returns: the next query's scan starts, or the
\* cycle is complete.
ScanPause(t) ==
    /\ tasks[t].pc = "pause"
    /\ IF Tail(tasks[t].queue) # <<>>
       THEN tasks' = [tasks EXCEPT ![t].pc = "fetch", ![t].queue = Tail(@),
                                   ![t].begun = Append(@, tasks[t].queue[2].id)]
       ELSE tasks' = [tasks EXCEPT ![t] = AfterCycle(tasks[t], scanner_running)]
    /\ calls' = <<>>
    /\ UNCHANGED <<scanner_running, scanner_task, cycles_begun, watch_queries,
                   opportunities, stop_accepted, dup_ignored, aggVars>>

\* ------------------------------------------------------------- search_all
\* api / scr: how each task of the API adapter / of scrape_all ended; api_failed /
\* scr_failed: whether its HTTP exchange failed (a transport error, a status that is
\* not 200, a body that cannot be read).
AggIdle ==
    [pc |-> "idle", mode |-> "auto", app_id |-> "", api |-> AllPending, scr |-> AllPending,
     api_failed |-> [sl \in Slots |-> FALSE], scr_failed |-> [sl \in Slots |-> FALSE],
     api_invoked |-> FALSE, scrape_invoked |-> FALSE, result |-> NoneResult]

\* search_all up to its first await: read the mode, create the three API tasks
\* (use_api) or call scrape_all, which creates the three scrape tasks.
search_all_call(mode, app_id) ==
    /\ agg.pc = "idle"
    /\ LET use_api == mode = "api" \/ (mode = "auto" /\ api_keys_configured(app_id))
           use_scrape == mode = "scrape" \/ (mode = "auto" /\ ~api_keys_configured(app_id))
       IN  agg' = [AggIdle EXCEPT !.mode = mode, !.app_id = app_id,
                                  !.pc = IF use_api THEN "api"
                                         ELSE IF use_scrape THEN "scrape" ELSE "done",
                                  !.api_invoked = use_api,
                                  !.scrape_invoked = ~use_api /\ use_scrape]
    /\ UNCHANGED <<scannerVars, plat, restVars>>

\* One of the three API tasks finishes.
api_task_done(slot, token, resp) ==
    /\ agg.pc = "api" /\ agg.api[slot].state = "pending"
    /\ agg' = [agg EXCEPT !.api[slot] =
                  CASE slot = "active" -> search_active_listings(token, resp)
                    [] slot = "sold" -> search_sold_listings(resp)
                    [] slot = "completed" -> search_completed_listings(resp),
                         !.api_failed[slot] = (token # "ok" \/ resp.kind # "ok")]
    /\ UNCHANGED <<scannerVars, plat, restVars>>

\* asyncio.gather returns: the API result is served, or search_all calls scrape_all
\* (not in mode api), or it returns the empty "none" result.
api_gathered ==
    /\ agg.pc = "api" /\ \A sl \in Slots : agg.api[sl].state # "pending"
    /\ LET r == Gathered(agg.api["active"], agg.api["sold"], agg.api["completed"], "api")
       IN  IF ApiServes(r)
           THEN agg' = [agg EXCEPT !.pc = "done", !.result = r]
           ELSE IF FallsBack(agg.mode)
           THEN agg' = [agg EXCEPT !.pc = "scrape", !.scrape_invoked = TRUE]
           ELSE agg' = [agg EXCEPT !.pc = "done", !.result = NoneResult]
    /\ UNCHANGED <<scannerVars, plat, restVars>>

\* One of scrape_all's three tasks finishes.
scrape_task_done(slot, has_curl, curl_resp, httpx_resp) ==
    /\ agg.pc = "scrape" /\ agg.scr[slot].state = "pending"
    /\ LET fetched == fetch_page(has_curl, curl_resp, httpx_resp)
       IN  agg' = [agg EXCEPT !.scr[slot] =
                      scrape_listings(fetched, IF slot = "active" THEN "active" ELSE "sold"),
                             !.scr_failed[slot] =
                      (~fetched.soup \/ fetched.page.heading = "comma_first")]
    /\ UNCHANGED <<scannerVars, plat, restVars>>

\* scrape_all's gather returns and search_all labels and returns its result.
scrape_gathered ==
    /\ agg.pc = "scrape" /\ \A sl \in Slots : agg.scr[sl].state # "pending"
    /\ agg' = [agg EXCEPT !.pc = "done",
                          !.result = Gathered(agg.scr["active"], agg.scr["sold"],
                                              agg.scr["completed"], ScrapeLabel)]
    /\ UNCHANGED <<scannerVars, plat, restVars>>

\* The caller takes the result.
search_all_return ==
    /\ agg.pc = "done"
    /\ agg' = AggIdle
    /\ UNCHANGED <<scannerVars, plat, restVars>>

\* ---------------------------------------------------- search_all_platforms
PlatIdle ==
    [pc |-> "idle", sub |-> [pf \in Platforms |-> Pending],
     failed |-> [pf \in Platforms |-> FALSE],
     result |-> [pf \in Platforms |-> <<>>]]

\* search_all_platforms up to its await: the three tasks are created.
search_all_platforms_call ==
    /\ plat.pc = "idle"
    /\ plat' = [PlatIdle EXCEPT !.pc = "wait"]
    /\ UNCHANGED <<scannerVars, agg, restVars>>

\* One platform task finishes.
platform_task_done(pf, enabled, connected, resp) ==
    /\ plat.pc = "wait" /\ plat.sub[pf].state = "pending"
    /\ plat' = [plat EXCEPT !.sub[pf] =
                   CASE pf = "poshmark" -> search_poshmark(resp)
                     [] pf = "mercari" -> search_mercari(resp)
                     [] pf = "facebook" -> search_facebook(enabled, connected, resp),
                          !.failed[pf] = /\ resp.kind # "ok"
                                         /\ pf = "facebook" => enabled /\ connected]
    /\ UNCHANGED <<scannerVars, agg, restVars>>

\* x if not isinstance(x, Exception) else []
PlatformSlice(r) == IF r.state = "raised" THEN <<>> ELSE r.items

\* gather returns and the dict is built.
platforms_gathered ==
    /\ plat.pc = "wait" /\ \A pf \in Platforms : plat.sub[pf].state # "pending"
    /\ plat' = [plat EXCEPT !.pc = "done",
                            !.result = [pf \in Platforms |-> PlatformSlice(plat.sub[pf])]]
    /\ UNCHANGED <<scannerVars, agg, restVars>>

\* The caller takes the result.
search_all_platforms_return ==
    /\ plat.pc = "done"
    /\ plat' = PlatIdle
    /\ UNCHANGED <<scannerVars, agg, restVars>>

\* ------------------------------------------------------------ analyze_prices
\* The inputs of analyze_prices: prices in cents (NULL for a missing price), dates as
\* day numbers (NULL for a missing sold_date), the totals the searches report.
MaxPrices == 2
MaxDays == 2
PriceValues == {NULL, 0, 100, 805, 5000}
TotalsSold == {3, 11, 30, 35}
TotalsCompleted == {0, 20, 30, 100}
TotalsActive == {40}
Days == 1 .. MaxDays

SeqsUpTo(S, n) == UNION {[1 .. k -> S] : k \in 0 .. n}

RECURSIVE Repeat(_, _)
Repeat(seq, k) == IF k = 0 THEN <<>> ELSE seq \o Repeat(seq, k - 1)

\* Listings as analyze_prices reads them: a price and, for a sale, its sold_date.
PricedListings(prices, sold_date) ==
    [i \in DOMAIN prices |-> [price |-> prices[i], sold_date |-> sold_date]]

ActiveInputs == {PricedListings(prices, NULL) : prices \in SeqsUpTo(PriceValues, 1)}
SoldInputs ==
    {PricedListings(Repeat(prices, k), sold_date) :
        prices \in SeqsUpTo(PriceValues, MaxPrices), k \in {1, 5}, sold_date \in {NULL, 0}}

PricingIdle == [args |-> <<>>, today |-> 1, results |-> <<>>]

\* What analyze_prices returns for the stored arguments when the clock reads today.
AnalyzeAt(args, today) ==
    [at |-> today,
     result |-> analyze_prices(args[1], args[2], args[3], args[4], args[5], today)]

\* A first call of analyze_prices.
analyze_call(active_listings, sold_listings, total_active, total_sold, total_completed) ==
    /\ pricing.results = <<>>
    /\ LET args == <<active_listings, sold_listings, total_active, total_sold,
                     total_completed>>
       IN  pricing' = [pricing EXCEPT !.args = args,
                                      !.results = <<AnalyzeAt(args, pricing.today)>>]
    /\ UNCHANGED <<scannerVars, agg, plat, ebay_mode, workflowVars, scanned, oauth>>

\* A second call of analyze_prices with the same arguments.
analyze_again ==
    /\ Len(pricing.results) = 1
    /\ pricing' = [pricing EXCEPT
                       !.results = Append(@, AnalyzeAt(pricing.args, pricing.today))]
    /\ UNCHANGED <<scannerVars, agg, plat, ebay_mode, workflowVars, scanned, oauth>>

\* A day passes: datetime.now() reads one day later.
clock_tick ==
    /\ pricing.today < MaxDays
    /\ pricing' = [pricing EXCEPT !.today = @ + 1]
    /\ UNCHANGED <<scannerVars, agg, plat, ebay_mode, workflowVars, scanned, oauth>>

\* ---------------------------------------------------------- _scan_one_query
\* One call of _scan_one_query on bounded search results: active listings of up to
\* MaxListings entries, priced or not, and the sold results of the Finding API.
MaxListings == 2
ScanRaw == { Raw(NULL, "https://www.ebay.com/itm/201"),
             Raw(1500, "https://www.ebay.com/itm/202"),
             Raw(2000, "https://www.ebay.com/itm/203"),
             Raw(9000, "https://www.ebay.com/itm/204"),
             Raw(3600, "https://www.ebay.com/itm/205"),
             Raw(4700, "https://www.ebay.com/itm/206"),
             Raw(5000, "https://www.ebay.com/itm/207") }
ScanActiveInputs ==
    {Raised} \cup {Returned(Normalize(raw, "active", "api"), 40) :
                      raw \in SeqsUpTo(ScanRaw, MaxListings)}
\* The sold searches of the scanner, and one that returns ten sales at two far-apart
\* prices.
ScanSoldInputs ==
    SoldResults \cup
    {Returned(Repeat(<<Listing(100, "https://www.ebay.com/itm/301", "sold", "api"),
                       Listing(20000, "https://www.ebay.com/itm/302", "sold", "api")>>, 5),
              10)}
ScanWatchInputs == {[id |-> 1, config |-> config] : config \in WatchConfigs}

NotScanned == [state |-> "none", wq |-> [id |-> 0], active |-> Pending, sold |-> Pending,
               offered |-> <<>>]

scan_one_query(wq, active_result, sold_result) ==
    /\ scanned.state = "none"
    /\ scanned' = [state |-> "done", wq |-> wq, active |-> active_result,
                   sold |-> sold_result,
                   offered |-> ScanCandidates(wq, active_result, sold_result)]
    /\ UNCHANGED <<scannerVars, agg, plat, ebay_mode, pricing, workflowVars, oauth>>

\* --------------------------------------------------------- _get_oauth_token
\* Concurrent callers of _get_oauth_token. Time is in seconds and advances in steps of
\* 60; a token is named by the number of the response that carried it (0: None).
MaxCallers == 2
MaxRefreshes == 3
MaxMinutes == 4
Callers == 1 .. MaxCallers

\* What the POST to the token endpoint ends with: a transport error, a non-2xx status
\* (raise_for_status), a body that is not JSON, or a JSON object that holds both keys,
\* lacks "access_token" or lacks "expires_in".
TokenReplies ==
    {[kind |-> k, expires_in |-> 0] :
        k \in {"network_error", "http_error", "bad_json", "no_access_token", "no_expires_in"}}
    \cup {[kind |-> "ok", expires_in |-> e] : e \in {60, 180}}

\* _token_cache = {"token": None, "expires_at": 0}; stamped is the number of the
\* response whose expires_in the cached expires_at was computed from.
OauthInit ==
    [cache |-> [token |-> 0, expires_at |-> 0, stamped |-> 0],
     now |-> 0, refreshes |-> 0,
     callers |-> [c \in Callers |-> [pc |-> "idle", via |-> "", got |-> 0]]]

\* if _token_cache["token"] and time.time() < _token_cache["expires_at"] - 60
CacheFresh(cache, now) == cache.token # 0 /\ now < cache.expires_at - 60

\* A caller enters _get_oauth_token: it returns the cached token, or sends the POST and
\* awaits the response.
oauth_call(c) ==
    /\ oauth.callers[c].pc # "posting"
    /\ IF CacheFresh(oauth.cache, oauth.now)
       THEN oauth' = [oauth EXCEPT !.callers[c] =
                         [pc |-> "done", via |-> "cache", got |-> oauth.cache.token]]
       ELSE /\ oauth.refreshes < MaxRefreshes
            /\ oauth' = [oauth EXCEPT !.callers[c] =
                             [pc |-> "posting", via |-> "", got |-> 0]]
    /\ UNCHANGED <<scannerVars, agg, plat, ebay_mode, pricing, workflowVars, scanned>>

\* The POST of a caller ends: raise_for_status and resp.json() raise before anything
\* is written; then the two entries of _token_cache are written one after the other,
\* each after reading its key of the response.
oauth_response(c, reply) ==
    /\ oauth.callers[c].pc = "posting"
    /\ LET r == oauth.refreshes + 1
           failed == [pc |-> "done", via |-> "raised", got |-> 0]
       IN  IF reply.kind = "ok"
           THEN oauth' = [oauth EXCEPT
                             !.refreshes = r,
                             !.cache = [token |-> r,
                                        expires_at |-> oauth.now + reply.expires_in,
                                        stamped |-> r],
                             !.callers[c] = [pc |-> "done", via |-> "refresh", got |-> r]]
           ELSE IF reply.kind = "no_expires_in"
           THEN oauth' = [oauth EXCEPT !.refreshes = r, !.cache.token = r,
                                       !.callers[c] = failed]
           ELSE oauth' = [oauth EXCEPT !.refreshes = r, !.callers[c] = failed]
    /\ UNCHANGED <<scannerVars, agg, plat, ebay_mode, pricing, workflowVars, scanned>>

\* time.time() reads a minute later.
oauth_tick ==
    /\ oauth.now < 60 * MaxMinutes
    /\ oauth' = [oauth EXCEPT !.now = @ + 60]
    /\ UNCHANGED <<scannerVars, agg, plat, ebay_mode, pricing, workflowVars, scanned>>

Init ==
    /\ scanner_running = FALSE
    /\ scanner_task = 0
    /\ tasks = <<>>
    /\ cycles_begun = 0
    /\ watch_queries = {}
    /\ opportunities = {}
    /\ calls = <<>>
    /\ stop_accepted = FALSE
    /\ dup_ignored = FALSE
    /\ agg = AggIdle
    /\ plat = PlatIdle
    /\ ebay_mode = "auto"
    /\ pricing = PricingIdle
    /\ inventory_items = 0
    /\ deleted_watch = {}
    /\ scanned = NotScanned
    /\ oauth = OauthInit

\* The deal scanner with its controls, the scan-now cycles and the database.
Next ==
    \/ start_scanner
    \/ stop_scanner
    \/ scan_now
    \/ \E config \in WatchConfigs, enabled \in BOOLEAN : add_watch_query(config, enabled)
    \/ \E t \in DOMAIN tasks : LoopEnter(t)
    \/ \E t \in DOMAIN tasks : LoopTick(t)
    \/ \E t \in DOMAIN tasks, db_ok \in BOOLEAN : CycleLoad(t, db_ok)
    \/ \E t \in DOMAIN tasks, active_result \in ActiveResults, sold_result \in SoldResults :
          ScanFetch(t, active_result, sold_result)
    \/ \E t \in DOMAIN tasks, db_ok \in BOOLEAN : ScanInsert(t, db_ok)
    \/ \E t \in DOMAIN tasks, db_ok \in BOOLEAN : ScanMark(t, db_ok)
    \/ \E t \in DOMAIN tasks : ScanPause(t)

Spec == Init /\ [][Next]_vars

\* The aggregator: search_all and search_all_platforms, as the search endpoints
\* run them side by side.
AggNext ==
    \/ \E mode \in Modes, app_id \in AppIds : search_all_call(mode, app_id)
    \/ \E token \in TokenResponses, resp \in BrowseResponses :
          api_task_done("active", token, resp)
    \/ \E sl \in {"sold", "completed"}, resp \in FindingResponses :
          api_task_done(sl, "ok", resp)
    \/ api_gathered
    \/ \E sl \in Slots, has_curl \in BOOLEAN, r1 \in ScrapeResponses, r2 \in ScrapeResponses :
          scrape_task_done(sl, has_curl, r1, r2)
    \/ scrape_gathered
    \/ search_all_return
    \/ search_all_platforms_call
    \/ \E resp \in PoshmarkResponses : platform_task_done("poshmark", TRUE, TRUE, resp)
    \/ \E resp \in MercariResponses : platform_task_done("mercari", TRUE, TRUE, resp)
    \/ \E enabled \in BOOLEAN, connected \in BOOLEAN, resp \in FacebookResponses :
          platform_task_done("facebook", enabled, connected, resp)
    \/ platforms_gathered
    \/ search_all_platforms_return

AggSpec == Init /\ [][AggNext]_vars

\* Scan cycles started by hand, with the settings and the opportunity workflow of
\* the API around them.
ScanNext ==
    \/ \E mode \in Modes : update_settings(mode)
    \/ Len(tasks) < MaxScans /\ scan_now
    \/ \E wq_id \in 1 .. MaxWatch : delete_watch_query(wq_id)
    \/ \E o \in opportunities : dismiss_opportunity(o.id)
    \/ \E o \in opportunities : purchase_opportunity(o.id)
    \/ \E config \in WatchConfigs, enabled \in BOOLEAN : add_watch_query(config, enabled)
    \/ \E t \in DOMAIN tasks, db_ok \in BOOLEAN : CycleLoad(t, db_ok)
    \/ \E t \in DOMAIN tasks, active_result \in ActiveResults, sold_result \in SoldResults :
          ScanFetch(t, active_result, sold_result)
    \/ \E t \in DOMAIN tasks, db_ok \in BOOLEAN : ScanInsert(t, db_ok)
    \/ \E t \in DOMAIN tasks, db_ok \in BOOLEAN : ScanMark(t, db_ok)
    \/ \E t \in DOMAIN tasks : ScanPause(t)

ScanSpec == Init /\ [][ScanNext]_vars

\* analyze_prices called on bounded inputs, once and again, while days pass.
PricingNext ==
    \/ \E active_listings \in ActiveInputs, sold_listings \in SoldInputs,
          total_active \in TotalsActive, total_sold \in TotalsSold,
          total_completed \in TotalsCompleted :
          analyze_call(active_listings, sold_listings, total_active, total_sold,
                       total_completed)
    \/ analyze_again
    \/ clock_tick

PricingSpec == Init /\ [][PricingNext]_vars

\* _scan_one_query called once on bounded results.
ScanOneNext ==
    \E wq \in ScanWatchInputs, active_result \in ScanActiveInputs,
       sold_result \in ScanSoldInputs :
        scan_one_query(wq, active_result, sold_result)

ScanOneSpec == Init /\ [][ScanOneNext]_vars

\* Concurrent callers of _get_oauth_token while time passes.
TokenNext ==
    \/ \E c \in Callers : oauth_call(c)
    \/ \E c \in Callers, reply \in TokenReplies : oauth_response(c, reply)
    \/ oauth_tick

TokenSpec == Init /\ [][TokenNext]_vars

\* ---------------------------------------------------------------------------
\* Properties of the scanner (specification Spec)
\* ---------------------------------------------------------------------------

\* The program state start_scanner() and stop_scanner() may write.
scannerState == <<scanner_running, scanner_task, tasks, cycles_begun, watch_queries,
                  opportunities>>

C2_SingleLoop ==
    /\ [](Cardinality(LiveLoops) <= 1)
    /\ [][/\ (start_scanner /\ LiveLoops # {}) => UNCHANGED scannerState
          /\ (stop_scanner /\ ~scanner_running) => UNCHANGED scannerState]_vars

\* A second loop task is live after the first one ended, and a start() issued while
\* it is live has just been refused.
C2_Witness ==
    /\ Len(calls) = 2 /\ calls[2] = FALSE
    /\ \E t1, t2 \in DOMAIN tasks :
          /\ t1 < t2
          /\ tasks[t1].kind = "loop" /\ TaskDone(t1)
          /\ t2 \in LiveLoops

\* C3: once stop() has returned true and start() has not been called again,
\* is_scanner_running() stays false (and the loop, which only runs while the flag is
\* set, exits at its next wake-up).
C3_StopStaysStopped == stop_accepted => ~is_scanner_running

\* C4: no two opportunities share an ebay_item_id, whatever the interleaving of the
\* loop's cycle and a scan-now cycle; add_opportunity with a key that is already
\* stored inserts nothing, leaves the stored rows as they are, raises no error and
\* returns no row.
C4_UniqueEbayItem ==
    /\ \A o1, o2 \in opportunities :
          o1.ebay_item_id = o2.ebay_item_id => o1 = o2
    /\ \A t \in DOMAIN tasks :
          (/\ tasks[t].pc = "insert"
           /\ \E o \in opportunities :
                 o.ebay_item_id = Head(tasks[t].pending).ebay_item_id)
          => LET done == add_opportunity(Head(tasks[t].pending))
             IN  done.rows = opportunities /\ ~done.raised /\ ~done.returned

\* The loop's cycle and a scan-now cycle are scanning the same watch query at the
\* same time: one has stored rows, the other has had its insert of a listing that was
\* already stored ignored and has counted nothing.
C4_Witness ==
    /\ dup_ignored
    /\ \E t1, t2 \in DOMAIN tasks :
          /\ tasks[t1].kind # tasks[t2].kind
          /\ tasks[t1].pc \in {"insert", "mark"} /\ tasks[t2].pc \in {"insert", "mark"}
          /\ Head(tasks[t1].queue).id = Head(tasks[t2].queue).id
          /\ tasks[t1].new_count >= 1 /\ tasks[t2].new_count = 0
          /\ \E o \in opportunities : o.watch_query_id = Head(tasks[t1].queue).id

\* ---------------------------------------------------------------------------
\* Properties of the aggregators (specification AggSpec)
\* ---------------------------------------------------------------------------

\* search_all has its result.
AggDone == agg.pc = "done"

\* What a finished sub-search hands to the aggregator once exceptions are turned
\* into the empty result.
SliceOf(outcome) ==
    IF outcome.state = "raised" THEN [items |-> <<>>, total |-> 0]
    ELSE [items |-> outcome.items, total |-> outcome.total]

\* The result holds, slice by slice, what the three sub-searches of one adapter
\* ended with: empty for one that raised, its own data for one that returned.
SlicesFrom(result, outcomes) ==
    /\ result.active = SliceOf(outcomes["active"]).items
    /\ result.total_active = SliceOf(outcomes["active"]).total
    /\ result.sold = SliceOf(outcomes["sold"]).items
    /\ result.total_sold = SliceOf(outcomes["sold"]).total
    /\ result.total_completed = SliceOf(outcomes["completed"]).total

\* The listings of a result.
ListingsOf(result) ==
    {result.active[i] : i \in DOMAIN result.active} \cup
    {result.sold[i] : i \in DOMAIN result.sold}

AllEmpty(result) ==
    /\ result.active = <<>> /\ result.sold = <<>>
    /\ result.total_active = 0 /\ result.total_sold = 0 /\ result.total_completed = 0

\* The API path came back with no active and no sold listing.
ApiYieldsNothing ==
    /\ agg.api_invoked
    /\ SliceOf(agg.api["active"]).items = <<>>
    /\ SliceOf(agg.api["sold"]).items = <<>>

\* C5: in mode auto with API credentials configured, when the API path yields zero
\* active and zero sold listings the scraped adapter is invoked and the result is the
\* scraper's result, labelled "scrape".
C5_AutoFallsBackToScrape ==
    (AggDone /\ agg.mode = "auto" /\ api_keys_configured(agg.app_id) /\ ApiYieldsNothing)
    => /\ agg.scrape_invoked
       /\ agg.result.source_mode = "scrape"
       /\ SlicesFrom(agg.result, agg.scr)

\* Mode auto with credentials, an API path that came back empty, and a result that
\* carries the scraper's listings.
C5_Witness ==
    /\ AggDone /\ agg.mode = "auto" /\ api_keys_configured(agg.app_id)
    /\ ApiYieldsNothing
    /\ agg.result.source_mode = "scrape"
    /\ agg.result.active # <<>>

\* C6: the reported source_mode is never "auto"; when it is "api" every list and
\* count comes from the API adapter and active or sold is non-empty; when it is
\* "scrape" every list and count comes from the scraped adapter; no result mixes the
\* two adapters.
C6_SourceModeNamesAdapter ==
    AggDone =>
       /\ agg.result.source_mode \in {"api", "scrape", "none"}
       /\ agg.result.source_mode = "api" =>
             /\ agg.api_invoked /\ SlicesFrom(agg.result, agg.api)
             /\ \A l \in ListingsOf(agg.result) : l.via = "api"
             /\ agg.result.active # <<>> \/ agg.result.sold # <<>>
       /\ agg.result.source_mode = "scrape" =>
             /\ agg.scrape_invoked /\ SlicesFrom(agg.result, agg.scr)
             /\ \A l \in ListingsOf(agg.result) : l.via = "scrape"
       /\ agg.result.source_mode = "none" => AllEmpty(agg.result)
       /\ \A l1, l2 \in ListingsOf(agg.result) : l1.via = l2.via

\* Both adapters were invoked and had listings of their own kind to give (the API a
\* completed count only, since it was abandoned); the result is the scraper's.
C6_Witness ==
    /\ AggDone /\ agg.api_invoked /\ agg.scrape_invoked
    /\ SliceOf(agg.api["completed"]).total > 0
    /\ agg.result.source_mode = "scrape"
    /\ agg.result.active # <<>> /\ agg.result.sold # <<>>

\* Every API sub-search failed or returned nothing.
ApiAllEmpty ==
    /\ agg.api_invoked
    /\ \A sl \in Slots : SliceOf(agg.api[sl]).items = <<>>

\* C7 as stated: mode api never invokes the scraped adapter, and when every API
\* sub-search fails or returns nothing the result is empty and labelled "api".
C7_ApiOnlyLabelApi ==
    (AggDone /\ agg.mode = "api")
    => /\ ~agg.scrape_invoked
       /\ ApiAllEmpty => (AllEmpty(agg.result) /\ agg.result.source_mode = "api")

\* C7: mode api never invokes the scraped adapter, and when every API sub-search
\* fails or returns nothing the result is empty and labelled "none".
C7_ApiOnlyLabelNone ==
    (AggDone /\ agg.mode = "api")
    => /\ agg.api_invoked /\ ~agg.scrape_invoked
       /\ \A sl \in Slots : agg.scr[sl] = Pending
       /\ ApiAllEmpty => (AllEmpty(agg.result) /\ agg.result.source_mode = "none")

\* Mode api, every API sub-search failed or came back empty, the call has returned.
C7_Witness ==
    /\ AggDone /\ agg.mode = "api" /\ ApiAllEmpty
    /\ agg.api["active"].state = "raised" /\ agg.api["sold"].state = "returned"
    /\ agg.result.source_mode = "none"

\* Every adapter the call used failed: each of its sub-searches raised or had a
\* failed exchange.
AllAdaptersFailed ==
    /\ agg.api_invoked => \A sl \in Slots : agg.api_failed[sl]
    /\ agg.scrape_invoked => \A sl \in Slots : agg.scr_failed[sl]

\* C8: in every mode, when all adapters used fail, search_all returns the all-empty
\* result with source_mode "none".
C8_TotalFailureIsNone ==
    (AggDone /\ AllAdaptersFailed)
    => (AllEmpty(agg.result) /\ agg.result.source_mode = "none")

\* search_all_platforms has its result.
PlatDone == plat.pc = "done"

\* Every slice of the platform result is what its own sub-search ended with.
PlatformSlicesFrom(result, outcomes) ==
    \A pf \in Platforms : result[pf] = SliceOf(outcomes[pf]).items

\* C9 as stated: the sub-searches of an aggregator call are independent: in the
\* result of search_all over the API (modes api and auto), of scrape_all and of
\* search_all_platforms, the slice of a sub-search that raised is empty and the slice
\* of every sub-search that succeeded is what that sub-search returned.
C9_SlicesAlwaysKept ==
    /\ (AggDone /\ agg.api_invoked) => SlicesFrom(agg.result, agg.api)
    /\ (AggDone /\ ~agg.api_invoked /\ agg.scrape_invoked) => SlicesFrom(agg.result, agg.scr)
    /\ PlatDone => PlatformSlicesFrom(plat.result, plat.sub)

\* C9: a sub-search that raises empties only its own slice of the result its adapter
\* builds, and the succeeded slices are returned unchanged, whenever that adapter's
\* result is the one served: the API's when it holds an active or a sold listing, the
\* scraper's whenever scrape_all ran, the platforms' always. An API path that holds
\* neither is dropped as a whole (its completed count included) for the scraper's
\* result (not in mode api) or the all-zero result (mode api).
C9_SlicesKeptWhenServed ==
    /\ AggDone =>
          /\ (agg.api_invoked /\ ~ApiYieldsNothing) => SlicesFrom(agg.result, agg.api)
          /\ agg.scrape_invoked => SlicesFrom(agg.result, agg.scr)
          /\ (ApiYieldsNothing /\ agg.mode = "api") => AllEmpty(agg.result)
          /\ (ApiYieldsNothing /\ agg.mode # "api") => agg.scrape_invoked
    /\ PlatDone => PlatformSlicesFrom(plat.result, plat.sub)

\* One API sub-search raised, the two others returned data of their own, and the
\* result served holds those two slices.
C9_Witness ==
    /\ AggDone /\ agg.api_invoked
    /\ agg.api["sold"].state = "raised"
    /\ agg.api["active"].state = "returned" /\ agg.api["active"].items # <<>>
    /\ agg.api["completed"].state = "returned" /\ agg.api["completed"].total > 0
    /\ agg.result.sold = <<>> /\ agg.result.active # <<>>
    /\ agg.result.total_completed > 0

\* C10: no adapter search raises on a transport error, a non-2xx answer or a body it
\* cannot read: each such sub-search ends by returning the empty list and a zero
\* total.
C10_AdaptersNeverRaise ==
    /\ \A sl \in Slots :
          /\ agg.api_failed[sl] => agg.api[sl] = Returned(<<>>, 0)
          /\ agg.scr_failed[sl] => agg.scr[sl] = Returned(<<>>, 0)
    /\ \A pf \in Platforms : plat.failed[pf] => plat.sub[pf] = Returned(<<>>, 0)

\* ---------------------------------------------------------------------------
\* Properties of a scan and of the opportunity workflow (specification ScanSpec)
\* ---------------------------------------------------------------------------

\* C11: every scan of a watch query fetches through the aggregator, so in mode
\* scrape the searches of a scan go through the scraped adapter and never through the
\* API adapter.
C11_ScanFollowsMode ==
    \A t \in DOMAIN tasks :
        tasks[t].fetch_mode = "scrape" =>
            ("scrape" \in tasks[t].fetch_via /\ "api" \notin tasks[t].fetch_via)

\* ------------------------------------------------------------------------
\* Properties of analyze_prices (specification PricingSpec)
NoPositivePrice(listings) ==
    \A i \in DOMAIN listings : listings[i].price = NULL \/ listings[i].price <= 0

\* The calls of analyze_prices made so far, each with its arguments.
PricingCalls ==
    {[active_listings |-> pricing.args[1], sold_listings |-> pricing.args[2],
      total_sold |-> pricing.args[4], total_completed |-> pricing.args[5],
      at |-> pricing.results[i].at, result |-> pricing.results[i].result] :
        i \in DOMAIN pricing.results}

\* C12: when neither the active nor the sold listings hold a positive price, the
\* recommendation has no max_buy_price and confidence low, and the deal score is 0 with
\* verdict NO DATA, whatever the totals are.
C12_NoPriceNoData ==
    \A c \in PricingCalls :
        NoPositivePrice(c.active_listings) /\ NoPositivePrice(c.sold_listings) =>
            /\ c.result.recommendation.max_buy_price = NULL
            /\ c.result.recommendation.confidence = "low"
            /\ c.result.deal_score.verdict = "NO DATA"
            /\ c.result.deal_score.score = 0

\* Listings are present but none is priced, and the totals report a hot market.
C12_Witness ==
    \E c \in PricingCalls :
        /\ c.active_listings # <<>> /\ NoPositivePrice(c.active_listings)
        /\ Len(c.sold_listings) >= 10 /\ NoPositivePrice(c.sold_listings)
        /\ c.total_sold = 35 /\ c.total_completed = 20
        /\ c.result.deal_score.verdict = "NO DATA"

\* The calls that returned a recommendation with figures (a reference price existed).
PricedCalls == {c \in PricingCalls : c.result.recommendation.max_buy_price # NULL}

\* C13: for non-negative prices and totals, max_buy_price and estimated_profit are never
\* negative, and a returned max_buy_price of 0 comes with a returned roi_percent of 0.
C13_ZeroBuyZeroRoi ==
    \A c \in PricedCalls :
        /\ c.result.recommendation.max_buy_price >= 0
        /\ c.result.recommendation.estimated_profit >= 0
        /\ c.result.recommendation.max_buy_price = 0 =>
               c.result.recommendation.roi_percent = 0

\* C14: every monetary field of a recommendation with figures (max_buy_price,
\* estimated_sell_price, net_after_fees, estimated_profit) is >= 0, also for a reference
\* price so low that price * 0.87 - 7.00 is negative.
C14_MoneyNonNegative ==
    \A c \in PricedCalls :
        /\ c.result.recommendation.max_buy_price >= 0
        /\ c.result.recommendation.estimated_sell_price >= 0
        /\ c.result.recommendation.net_after_fees >= 0
        /\ c.result.recommendation.estimated_profit >= 0

\* C15 as stated: the sell-through percent (held in tenths) is exactly
\* 100 * total_sold / total_completed whenever total_completed > 0.
C15_ExactPercent ==
    \A c \in PricingCalls :
        c.total_completed > 0 =>
            c.result.sell_through.sell_through_pct * c.total_completed = 1000 * c.total_sold

\* C15, amended: for total_completed > 0 the percent is 100 * total_sold /
\* total_completed to the nearest tenth, and the tier is read from that percent with
\* inclusive lower bounds (>= 60 hot, >= 35 steady, >= 15 slow, else dead); for
\* total_completed = 0 the percent is undefined and the tier is steady when
\* total_sold > 10, else unknown.
C15_RoundedPercentAndTiers ==
    \A c \in PricingCalls :
        LET pct == c.result.sell_through.sell_through_pct
            tier == c.result.sell_through.liquidity
            off == pct * c.total_completed - 1000 * c.total_sold
        IN  /\ c.total_completed > 0 =>
                  /\ pct # NULL
                  /\ 2 * off <= c.total_completed /\ 2 * off >= 0 - c.total_completed
                  /\ (pct >= 600) = (tier = "hot")
                  /\ (pct >= 350 /\ pct < 600) = (tier = "steady")
                  /\ (pct >= 150 /\ pct < 350) = (tier = "slow")
                  /\ (pct < 150) = (tier = "dead")
            /\ c.total_completed = 0 =>
                  /\ pct = NULL
                  /\ tier = IF c.total_sold > 10 THEN "steady" ELSE "unknown"

\* A percent of exactly 15.0 (3 sold of 20 completed) was ranked slow.
C15_Witness ==
    \E c \in PricingCalls :
        /\ c.total_sold = 3 /\ c.total_completed = 20
        /\ c.result.sell_through.sell_through_pct = 150
        /\ c.result.sell_through.liquidity = "slow"

\* C19: two calls of analyze_prices with the same arguments (the same samples with their
\* sold_date values, the same totals) return the same summary, whenever they are made.
C19_Deterministic ==
    Len(pricing.results) = 2 => pricing.results[1].result = pricing.results[2].result

\* ------------------------------------------------------------------------
\* Properties of the stored opportunities and of a scan cycle (specification Spec)
\* C16: every stored opportunity belongs to a watch query and passed its filters: price
\* > 0, price <= max_buy_price when one is set, profit = estimated sell price * 0.87 -
\* 7.00 - price >= min_profit, item score >= min_deal_score; and its estimated_profit is
\* that profit rounded to the cent. Money in cents, the profit in hundredths of a cent.
C16_StoredPassedFilters ==
    \A o \in opportunities :
        \E wq \in watch_queries :
            LET profit100 == 87 * o.estimated_sell_price - 70000 - 100 * o.current_price
                off == 100 * o.estimated_profit - profit100
            IN  /\ wq.id = o.watch_query_id
                /\ o.current_price > 0
                /\ wq.config.max_buy_price # NULL => o.current_price <= wq.config.max_buy_price
                /\ profit100 >= 100 * wq.config.min_profit
                /\ o.deal_score >= wq.config.min_deal_score
                /\ 2 * off <= 100 /\ 2 * off >= 0 - 100

\* An opportunity is stored for a watch query that sets a max_buy_price, next to one
\* above that price stored for a watch query without a maximum.
C16_Witness ==
    \E o \in opportunities, wq \in watch_queries, other \in opportunities :
        /\ wq.id = o.watch_query_id
        /\ wq.config.max_buy_price # NULL
        /\ other.current_price > wq.config.max_buy_price

\* The cycle of a task is under way: it loaded watch queries and has not ended.
InCycle(task) == task.loaded # <<>>

\* A function call raised inside the cycle of the task: an add_opportunity that
\* followed a stored one (the count of the scan is still held at the pause).
InsertRaised(task) == task.pc = "pause" /\ task.new_count > 0

\* C18: within a cycle the watch queries whose scan was called are a prefix of the
\* enabled ones loaded at its start (each once, in list order); a scan is called only
\* when the one before it is over; when the cycle ends every loaded one was scanned,
\* errors or not; and a loop task ends only with the flag down.
C18_EachLoadedScannedOnce ==
    /\ [](\A t \in DOMAIN tasks :
             /\ Len(tasks[t].begun) <= Len(tasks[t].loaded)
             /\ \A i \in DOMAIN tasks[t].begun : tasks[t].begun[i] = tasks[t].loaded[i]
             /\ \A i, j \in DOMAIN tasks[t].loaded :
                    tasks[t].loaded[i] = tasks[t].loaded[j] => i = j)
    /\ [][\A t \in DOMAIN tasks :
             /\ Len(tasks'[t].begun) > Len(tasks[t].begun) => tasks[t].pc \in {"load", "pause"}
             /\ InCycle(tasks[t]) /\ ~InCycle(tasks'[t]) => tasks[t].begun = tasks[t].loaded
             /\ InCycle(tasks[t]) /\ InsertRaised(tasks[t]) /\ Len(tasks[t].begun) < Len(tasks[t].loaded)
                   => tasks'[t].begun = Append(tasks[t].begun,
                                               tasks[t].loaded[Len(tasks[t].begun) + 1])
                      \/ tasks'[t] = tasks[t]
             /\ tasks[t].kind = "loop" /\ tasks[t].pc # "done" /\ tasks'[t].pc = "done"
                   => ~scanner_running]_vars

\* The only cycle so far is scanning its second watch query although the first one
\* was never marked as scanned: its scan or its update raised.
C18_Witness ==
    /\ Len(tasks) = 1 /\ cycles_begun = 1
    /\ Len(tasks[1].begun) = 2
    /\ \E wq \in watch_queries : wq.id = tasks[1].begun[1] /\ wq.scan_count = 0

\* C20: once stop() has lowered the flag, a loop task whose cycle is under way begins
\* the scan of no further watch query of that cycle.
C20_StopEndsCycle ==
    [][\A t \in DOMAIN tasks :
          tasks[t].kind = "loop" /\ InCycle(tasks[t]) /\ ~scanner_running
              => Len(tasks'[t].begun) <= Len(tasks[t].begun)]_vars

\* ------------------------------------------------------------------------
\* Properties of the opportunity workflow (specification ScanSpec)
Forward(from, to) ==
    \/ from = to
    \/ from = "new" /\ to \in {"viewed", "purchased", "dismissed"}
    \/ from = "viewed" /\ to \in {"purchased", "dismissed"}

\* C17: in every step the status of an opportunity stays or moves forward along new ->
\* viewed -> purchased | dismissed; a purchased or dismissed opportunity keeps its status
\* and its inventory_item_id; and an opportunity leaves the table only together with
\* its watch query.
C17_TerminalStatusKept ==
    [][\A o \in opportunities :
          LET after == {n \in opportunities' : n.id = o.id}
          IN  /\ \A n \in after : Forward(o.status, n.status)
              /\ o.status \in {"purchased", "dismissed"} =>
                     \A n \in after : /\ n.status = o.status
                                      /\ n.inventory_item_id = o.inventory_item_id
              /\ after = {} => \A wq \in watch_queries' : wq.id # o.watch_query_id]_vars

\* ------------------------------------------------------------------------
\* Properties of the scan statistics of a watch query (specification Spec)
\* The scan of the task awaits its two searches.
Fetching(task) == task.pc = "fetch"

\* The task is counting the opportunities its running scan inserts.
Inserting(task) == task.pc = "insert"

\* The scan of the task has returned and run_scan_cycle awaits mark_watch_scanned.
Marking(task) == task.pc = "mark"

\* The row of watch_queries with the id, before and after the step.
RowOf(rows, id) == {r \in rows : r.id = id}

\* C21: the count a scan hands over is the number of opportunities its inserts added to
\* the table (it starts at 0 and grows by the rows each insert adds), and a watch query
\* changes only when a completed scan of it is marked: then last_scanned is set,
\* scan_count grows by 1, opportunities_found grows by that count, and its thresholds
\* and its enabled flag stay as they are.
C21_ScanMarkedOnce ==
    [][/\ \A t \in DOMAIN tasks :
             /\ Fetching(tasks[t]) /\ (Inserting(tasks'[t]) \/ Marking(tasks'[t]))
                   => tasks'[t].new_count = 0
             /\ Inserting(tasks[t]) /\ tasks'[t] # tasks[t]
                     /\ (Inserting(tasks'[t]) \/ Marking(tasks'[t]))
                   => tasks'[t].new_count =
                          tasks[t].new_count + Cardinality(opportunities' \ opportunities)
       /\ \A wq \in watch_queries :
             \/ wq \in watch_queries'
             \/ \E t \in DOMAIN tasks, after \in RowOf(watch_queries', wq.id) :
                   /\ Marking(tasks[t]) /\ ~Marking(tasks'[t])
                   /\ Head(tasks[t].queue).id = wq.id
                   /\ after.last_scanned # NULL
                   /\ after.scan_count = wq.scan_count + 1
                   /\ after.opportunities_found = wq.opportunities_found + tasks[t].new_count
                   /\ after.config = wq.config /\ after.enabled = wq.enabled
                   /\ watch_queries' = (watch_queries \ {wq}) \cup {after}]_vars

\* A watch query was scanned twice: one scan inserted an opportunity, one inserted none.
C21_Witness ==
    \E wq \in watch_queries :
        wq.scan_count = 2 /\ wq.opportunities_found = 1 /\ wq.last_scanned # NULL

\* C22: the statistics of a watch query are updated only for a scan that completed: when
\* the listing fetch of the scan failed, the step that ends the scan leaves the row of
\* that watch query (its last_scanned and scan_count) as it was.
C22_FailedFetchNotMarked ==
    [][\A t \in DOMAIN tasks :
          Marking(tasks[t]) /\ tasks[t].fetch_failed /\ ~Marking(tasks'[t])
              => RowOf(watch_queries', Head(tasks[t].queue).id) \subseteq watch_queries]_vars

\* C30: in every result the reported score (the rounded composite) and the reported
\* verdict agree with the verdict thresholds: score >= 75 iff HOT DEAL, 55..74 iff GOOD
\* DEAL, 35..54 iff OKAY, below 35 iff PASS or NO DATA, and the score is an integer in
\* 0..100.
C30_ScoreAgreesWithVerdict ==
    \A c \in PricingCalls :
        LET score == c.result.deal_score.score
            verdict == c.result.deal_score.verdict
        IN  /\ score \in 0 .. 100
            /\ (score >= 75) = (verdict = "HOT DEAL")
            /\ (score >= 55 /\ score <= 74) = (verdict = "GOOD DEAL")
            /\ (score >= 35 /\ score <= 54) = (verdict = "OKAY")
            /\ (score < 35) = (verdict \in {"PASS", "NO DATA"})

\* ------------------------------------------------------------------------
\* Properties of one _scan_one_query call (specification ScanOneSpec)
\* estimated_sell_price when only asking prices are known: their median, in cents.
MedianAsking(items) == RoundHE(Median2(PositivePrices(items)), 2)

\* C23: when the active search fails or returns no listing, the scan hands nothing to
\* add_opportunity (it returns 0); when only the sold search fails, the scan goes on as
\* with an empty sold result and a sold total of 0: what it offers is priced at the
\* median asking price.
C23_SoldFailureDegrades ==
    scanned.state = "done" =>
        /\ scanned.active.state = "raised" \/ scanned.active.items = <<>>
               => scanned.offered = <<>>
        /\ scanned.sold.state = "raised" =>
               /\ scanned.offered = ScanCandidates(scanned.wq, scanned.active, Returned(<<>>, 0))
               /\ \A i \in DOMAIN scanned.offered :
                      scanned.offered[i].estimated_sell_price = MedianAsking(scanned.active.items)

\* The sold search failed and the scan still offered an opportunity.
C23_Witness ==
    /\ scanned.state = "done"
    /\ scanned.sold.state = "raised"
    /\ scanned.offered # <<>>

\* The deal score of the query a finished scan priced its listings with.
QueryDeal ==
    LET sold == Degrade(scanned.sold)
    IN  analyze_prices(scanned.active.items, sold.items, scanned.active.total,
                       sold.total, sold.total, 1).deal_score

\* Item ROI = profit / price * 100 compared with a percentage, on the unrounded profit
\* est_sell * 0.87 - 7.00 - price (prices in cents, both sides times 100 * price).
RoiOver(o, pct) ==
    87 * o.estimated_sell_price - 70000 - 100 * o.current_price > pct * o.current_price
RoiAtLeast(o, pct) ==
    87 * o.estimated_sell_price - 70000 - 100 * o.current_price >= pct * o.current_price

\* C27: for each candidate listing the item-level score is the query-level deal score
\* plus 15 if the item ROI exceeds 100, plus 5 if it exceeds 60 but not 100, unchanged
\* otherwise, and never above 100; the stored verdict is HOT DEAL if ROI >= 80, GOOD
\* DEAL if 50 <= ROI < 80, and the query-level verdict otherwise.
C27_ItemScoreAndVerdict ==
    scanned.state = "done" =>
        \A i \in DOMAIN scanned.offered :
            LET o == scanned.offered[i]
                bonus == IF RoiOver(o, 100) THEN 15 ELSE IF RoiOver(o, 60) THEN 5 ELSE 0
                raised == QueryDeal.score + bonus
            IN  /\ o.deal_score = (IF raised > 100 THEN 100 ELSE raised)
                /\ o.deal_score <= 100
                /\ o.deal_verdict = (IF RoiAtLeast(o, 80) THEN "HOT DEAL"
                                     ELSE IF RoiAtLeast(o, 50) THEN "GOOD DEAL"
                                     ELSE QueryDeal.verdict)

\* A scan offered a listing whose ROI lies between 80 and 100: its score is the query's
\* plus 5 and its verdict HOT DEAL where the query's verdict is another one.
C27_Witness ==
    /\ scanned.state = "done"
    /\ \E i \in DOMAIN scanned.offered :
          /\ RoiAtLeast(scanned.offered[i], 80) /\ ~RoiOver(scanned.offered[i], 100)
          /\ scanned.offered[i].deal_score = QueryDeal.score + 5
          /\ QueryDeal.verdict # "HOT DEAL"

\* ------------------------------------------------------------------------
\* Properties of deleting a watch query (specification ScanSpec)
\* C24: once delete_watch_query(id) has completed, no stored opportunity carries that
\* watch_query_id, also when a scan cycle had loaded the watch query before.
C24_DeleteCascades ==
    \A o \in opportunities : o.watch_query_id \notin deleted_watch

\* ------------------------------------------------------------------------
\* Properties of the OAuth token cache (specification TokenSpec)
\* C25: under any interleaving of callers, a caller gets the cached token without a
\* refresh only when a token is cached and more than 60 seconds remain before the cached
\* expiry, and refreshes otherwise; the cached token and expires_at always come from one
\* and the same response; and a refresh that fails leaves the cache as it was.
C25_TokenCacheCoherent ==
    /\ [](oauth.cache.stamped = oauth.cache.token)
    /\ [][\A c \in Callers :
             LET before == oauth.callers[c]
                 after == oauth'.callers[c]
             IN  /\ after # before /\ after.via = "cache" =>
                        /\ oauth.cache.token # 0
                        /\ oauth.cache.expires_at - oauth.now > 60
                        /\ after.got = oauth.cache.token
                 /\ after # before /\ before.pc # "posting" /\ after.via # "cache" =>
                        after.pc = "posting"
                 /\ after # before /\ after.via = "refresh" =>
                        before.pc = "posting" /\ after.got = oauth'.cache.token
                 /\ after # before /\ after.via = "raised" =>
                        oauth'.cache = oauth.cache]_vars

\* ------------------------------------------------------------------------
\* Properties of the deal score (specification PricingSpec)
\* The four sub-scores as the claim states them, from the returned recommendation and
\* sell-through: roi and the percent are held in tenths, so profit and demand are in
\* tenths of a point, confidence and risk in points.
ProfitPoints10(rec) ==
    IF rec.roi_percent >= 1000 THEN 1000
    ELSE IF rec.roi_percent >= 600 THEN 800
    ELSE IF rec.roi_percent >= 400 THEN 600
    ELSE IF rec.roi_percent >= 200 THEN 400
    ELSE IF rec.roi_percent > 0 THEN rec.roi_percent ELSE 0

\* 10 * min(1.5 * percent, 100) with the percent in tenths, kept exact by doubling.
DemandPoints20(st) ==
    IF st.sell_through_pct # NULL
    THEN (IF 3 * st.sell_through_pct < 2000 THEN 3 * st.sell_through_pct ELSE 2000)
    ELSE IF st.liquidity = "hot" THEN 1600
    ELSE IF st.liquidity = "steady" THEN 1100
    ELSE 600

ConfidencePoints(rec) ==
    IF rec.confidence = "high" THEN 100 ELSE IF rec.confidence = "medium" THEN 60 ELSE 25

RiskPoints(rec) ==
    LET r == 80 - (IF rec.spread_warning THEN 30 ELSE 0)
                - (IF rec.liquidity_warning THEN 20 ELSE 0)
    IN  IF r > 0 THEN r ELSE 0

\* 2000 * (0.40 * profit + 0.35 * demand + 0.15 * confidence + 0.10 * risk)
Weighted2000(rec, st) ==
    80 * ProfitPoints10(rec) + 35 * DemandPoints20(st)
        + 300 * ConfidencePoints(rec) + 200 * RiskPoints(rec)

\* C26: with a reference price, the composite is 0.40 * profit + 0.35 * demand + 0.15 *
\* confidence + 0.10 * risk of sub-scores in 0..100, it lies in 0..100, and the verdict
\* is HOT DEAL iff composite >= 75, GOOD DEAL iff 55 <= composite < 75, OKAY iff 35 <=
\* composite < 55, PASS otherwise.
C26_CompositeAndVerdict ==
    \A c \in PricedCalls :
        LET rec == c.result.recommendation
            st == c.result.sell_through
            composite == c.result.deal_score.composite2000
            verdict == c.result.deal_score.verdict
        IN  /\ ProfitPoints10(rec) \in 0 .. 1000
            /\ DemandPoints20(st) \in 0 .. 2000
            /\ ConfidencePoints(rec) \in 0 .. 100
            /\ RiskPoints(rec) \in 0 .. 100
            /\ composite = Weighted2000(rec, st)
            /\ composite \in 0 .. 200000
            /\ (verdict = "HOT DEAL") = (composite >= 150000)
            /\ (verdict = "GOOD DEAL") = (composite >= 110000 /\ composite < 150000)
            /\ (verdict = "OKAY") = (composite >= 70000 /\ composite < 110000)
            /\ (verdict = "PASS") = (composite < 70000)

\* A call whose demand sub-score is capped at 100 and whose verdict is HOT DEAL.
C26_Witness ==
    \E c \in PricedCalls :
        /\ c.result.sell_through.sell_through_pct > 1000
        /\ c.result.deal_score.verdict = "HOT DEAL"

\* ------------------------------------------------------------------------
\* Properties of the scanner controls (specification Spec)
\* C28: start() returns false only in states where is_scanner_running() is true: in no
\* reachable state does the scanner report not running while start() would refuse to
\* start a loop and the old loop task, past its first step, is on its way out. (Before
\* its first step the task raises the flag again, so that a refused start() there does
\* not leave the scanner stopped.)
C28_RefusedOnlyWhenRunning ==
    StartRefused /\ tasks[scanner_task].pc # "created" => is_scanner_running

\* ------------------------------------------------------------------------
\* Properties of the opportunity counter (specification Spec)
\* C29: whenever no scan cycle is under way (every cycle begun is complete, whether its
\* scans overlapped or raised), opportunities_found of every watch query equals the
\* number of stored opportunities whose watch_query_id is that watch query.
C29_FoundCountsStored ==
    (\A t \in DOMAIN tasks : ~InCycle(tasks[t])) =>
        \A wq \in watch_queries :
            wq.opportunities_found =
                Cardinality({o \in opportunities : o.watch_query_id = wq.id})
====
